---- MODULE Spec2Model ----
(***************************************************************************)
(* A model of bridgeview's scene composition code:                         *)
(*   src/render.py         BoundingSphere, Render.place_sun,              *)
(*                         Render.random_camera                           *)
(*   src/render/modify.py  Scale.write_groups, Scale.load_groups,         *)
(*                         Scale.scale, dissolve_near, limit_dissolve     *)
(*                                                                         *)
(* The program is single-threaded.  Each operation is modelled on its own *)
(* part of the state, and each part has its own specification             *)
(* (SpecGroups, SpecScene, SpecCamera, SpecSphere, SpecScale,             *)
(* SpecDissolve), in which the other parts keep their initial values.      *)
(*                                                                         *)
(* Numbers.  Coordinates are integers.  Where the code takes a square      *)
(* root (a distance, a norm), the model keeps the square and compares      *)
(* squares.  Where the code divides, the model keeps numerator and         *)
(* denominator.  A float that can become NaN is a tuple: <<v>> is the      *)
(* finite value v and <<>> is NaN.                                         *)
(***************************************************************************)
EXTENDS Integers, Sequences, FiniteSets, TLC

VARIABLES
    \* ---- Scale.load_groups / Scale.write_groups (the groups document) ----
    file,          \* the groups document on disk: [valid, data]
    groups,        \* Scale.groups: a key of GroupTable, or "None"
    io_call,       \* the last call: [op, name, overwrite]
    io_error,      \* the exception the last call raised, or "none"
    file_before,   \* the document when the last call started
    \* ---- Render.place_sun (the host scene) ----
    objects,       \* ids of the objects in bpy.data.objects
    obj_type,      \* id -> "MESH" | "CAMERA" | "LAMP"
    selected,      \* ids of the selected objects
    active,        \* bpy.context.object (0: none)
    sun,           \* Render.sun (0: None)
    sun_rotation,  \* the rotation the sun was added with
    sun_calls,     \* place_sun calls so far, saturating at 2
    camera,        \* the camera's [lens, location, rotation_euler]
    \* ---- Render.random_camera ----
    cam_pc,        \* "idle" | "loop" | "returned"
    cam_conf,      \* [terrain, centre, theta_lo, theta_hi]
    location,      \* the candidate location of the last draw
    closest_vertex,\* what landscape_tree.find(location) returned
    attempts,      \* iterations of the rejection loop, saturating
    \* ---- BoundingSphere ----
    sph_objects,   \* the objects the sphere was built from
    sph_box,       \* the 8 composite corners
    sph_centre,    \* 8 * centre (the sum of the 8 corners)
    sph_radius,    \* 64 * radius^2
    sph_built,     \* whether the constructor has run
    \* ---- Scale.scale ----
    obj_box,       \* name -> bounding box <<lo, hi>> of floats
    sc_pc,         \* "idle" | "returned" | "raised"
    sc_error,      \* the exception scale raised, or "none"
    sc_args,       \* [value, axis_index, reference, base]
    box_before,    \* obj_box when the last call started
    start_ref,     \* the reference's box before it was scaled
    end_ref,       \* the reference's box after it was scaled
    resized,       \* the scale_object calls of the last call, in order
    translated,    \* the translate_group calls of the last call, in order
    sc_calls,      \* scale calls so far
    \* ---- limit_dissolve ----
    mesh_co,       \* vertex id -> coordinates (quarter units)
    mesh_verts,    \* the mesh's vertices, in enumeration order
    dis_pc,        \* "idle" | "running" | "done"
    dis_args,      \* [axis_index, limit]
    mesh_before,   \* the vertices when limit_dissolve was called
    dis_passes     \* dissolve_next calls that returned True

ioVars      == <<file, groups, io_call, io_error, file_before>>
sunVars     == <<objects, obj_type, selected, active, sun, sun_rotation, sun_calls,
                 camera>>
camVars     == <<cam_pc, cam_conf, location, closest_vertex, attempts>>
sphVars     == <<sph_objects, sph_box, sph_centre, sph_radius, sph_built>>
scaleVars   == <<obj_box, sc_pc, sc_error, sc_args, box_before, start_ref,
                 end_ref, resized, translated, sc_calls>>
meshVars    == <<mesh_co, mesh_verts, dis_pc, dis_args, mesh_before, dis_passes>>
vars        == <<ioVars, sunVars, camVars, sphVars, scaleVars, meshVars>>
\* What an operation on one part leaves alone
notIo       == <<sunVars, camVars, sphVars, scaleVars, meshVars>>
notSun      == <<ioVars, camVars, sphVars, scaleVars, meshVars>>
notCam      == <<ioVars, sunVars, sphVars, scaleVars, meshVars>>
notSph      == <<ioVars, sunVars, camVars, scaleVars, meshVars>>
notScale    == <<ioVars, sunVars, camVars, sphVars, meshVars>>
notMesh     == <<ioVars, sunVars, camVars, sphVars, scaleVars>>

(***************************************************************************)
(* Vectors                                                                 *)
(***************************************************************************)
Axes == 1..3

VAdd(a, b) == [j \in Axes |-> a[j] + b[j]]
VSub(a, b) == [j \in Axes |-> a[j] - b[j]]
Dot(a, b)  == a[1]*b[1] + a[2]*b[2] + a[3]*b[3]
\* The square of the Euclidean length of a - b.
Dist2(a, b) == Dot(VSub(a, b), VSub(a, b))

Min2(a, b) == IF a <= b THEN a ELSE b
Max2(a, b) == IF a >= b THEN a ELSE b
SetMin(S) == CHOOSE x \in S : \A y \in S : x <= y
SetMax(S) == CHOOSE x \in S : \A y \in S : x >= y

(***************************************************************************)
(* The groups document: Scale.load_groups, Scale.write_groups              *)
(***************************************************************************)
Names == {"a", "b", "c"}

\* The group definitions a Scale can hold; "None" is Python's None.
GroupTable ==
    [G1 |-> [scale |-> <<"ref", "seg">>, min |-> <<"pierA">>, max |-> <<"pierB">>],
     G2 |-> [scale |-> <<"ref">>, min |-> <<"pierA", "seg">>, max |-> <<"pierB">>]]
GroupKeys == {"G1", "G2"}
GroupValues == GroupKeys \cup {"None"}

EmptyData == [n \in {} |-> "None"]
\* A file opened with 'w' and closed without a write: zero bytes, not JSON.
Truncated == [valid |-> FALSE, data |-> EmptyData]
Document(d) == [valid |-> TRUE, data |-> d]
Documents == UNION {[S -> GroupValues] : S \in SUBSET Names}

\* data[name] = value
SetItem(d, name, value) ==
    [n \in DOMAIN d \cup {name} |-> IF n = name THEN value ELSE d[n]]

NoCall == [op |-> "none", name |-> "a", overwrite |-> FALSE]

IoInit ==
    /\ file \in {Document(d) : d \in Documents} \cup {Truncated}
    /\ groups \in GroupValues
    /\ io_call = NoCall
    /\ io_error = "none"
    /\ file_before = file

\* Scale(groups): a new Scale over the same document.
Scale_init(g) ==
    /\ groups' = g
    /\ io_call' = [op |-> "init", name |-> "a", overwrite |-> FALSE]
    /\ io_error' = "none"
    /\ file_before' = file
    /\ UNCHANGED file
    /\ UNCHANGED notIo

load_groups(name) ==
    /\ io_call' = [op |-> "load", name |-> name, overwrite |-> FALSE]
    /\ file_before' = file
    /\ UNCHANGED file
    /\ IF ~file.valid
         THEN io_error' = "JSONDecodeError" /\ UNCHANGED groups
         ELSE IF name \notin DOMAIN file.data
                THEN io_error' = "KeyError" /\ UNCHANGED groups
                ELSE io_error' = "none" /\ groups' = file.data[name]
    /\ UNCHANGED notIo

write_groups(name, overwrite) ==
    /\ io_call' = [op |-> "write", name |-> name, overwrite |-> overwrite]
    /\ file_before' = file
    /\ UNCHANGED groups
    /\ IF ~file.valid
         \* json.load raises before the file is opened for writing
         THEN io_error' = "JSONDecodeError" /\ UNCHANGED file
         ELSE LET data == file.data IN
              \* open(filename, 'w') has truncated the file here
              IF name \notin DOMAIN data \/ overwrite
                THEN /\ file' = Document(SetItem(data, name, groups))
                     /\ io_error' = "none"
                ELSE /\ file' = Truncated
                     /\ io_error' = "ValueError"
    /\ UNCHANGED notIo

IoNext ==
    \/ \E g \in GroupValues : Scale_init(g)
    \/ \E name \in Names : load_groups(name)
    \/ \E name \in Names, overwrite \in BOOLEAN : write_groups(name, overwrite)

(***************************************************************************)
(* Render: the host scene and place_sun                                    *)
(***************************************************************************)
\* The most objects the scene holds at once.
MaxIds == 5
Ids == 1..MaxIds

\* random_sun: theta is drawn from opts['sun_theta'] = [0, 85 degrees], phi
\* from [0, 2 pi); the angles are in degrees here.
SunThetas == {0, 45, 85}
SunPhis == {0, 90, 180, 270}
\* Rotations a caller passes to place_sun.
Rotations == {<<30, 0, 60>>, <<90, 10, 0>>}
NoRotation == <<0, 0, 0>>

\* After Render.__init__: the bridge (1), the landscape (2) and the camera (3)
\* that new_camera added, which camera_add left selected and active.
SceneInit ==
    /\ objects = {1, 2, 3}
    /\ obj_type = [i \in Ids |-> IF i = 3 THEN "CAMERA" ELSE "MESH"]
    /\ selected = {3}
    /\ active = 3
    /\ sun = 0
    /\ sun_rotation = NoRotation
    /\ sun_calls = 0
    /\ camera = [lens |-> 35, location |-> <<0, 0, 0>>, rotation_euler |-> <<0, 0, 0>>]

\* bpy.ops.object.delete(): the selected objects leave the scene.
object_delete(objs, sel) == objs \ sel

\* What place_sun leaves of the scene before it adds the new sun.
delete_previous_sun_skipped(objs, s) == objs
delete_previous_sun(objs, s) ==
    \* select_all(action='DESELECT'), then self.sun.select = True
    IF s # 0 THEN object_delete(objs, {s}) ELSE objs

place_sun_body(rotation) ==
    LET kept == delete_previous_sun(objects, sun) IN
    /\ \E new \in Ids \ kept :
         /\ \A i \in Ids \ kept : new <= i
         \* lamp_add: the new lamp is the only selected object and is active
         /\ objects' = kept \cup {new}
         /\ obj_type' = [obj_type EXCEPT ![new] = "LAMP"]
         /\ selected' = {new}
         /\ active' = new
         /\ sun' = new
    /\ sun_rotation' = rotation
    /\ sun_calls' = Min2(sun_calls + 1, 2)

\* place_sun(rotation) with an explicit rotation
place_sun_explicit ==
    /\ \E rotation \in Rotations : place_sun_body(rotation)
    /\ UNCHANGED camera
    /\ UNCHANGED notSun

\* place_sun(): the rotation comes from random_sun
place_sun_random ==
    /\ \E theta \in SunThetas, phi \in SunPhis : place_sun_body(<<theta, 0, phi>>)
    /\ UNCHANGED camera
    /\ UNCHANGED notSun

\* Camera poses a caller passes to place_camera: focal length, location, rotation
Poses == { <<16, <<0, -30, 10>>, <<80, 0, 0>> >>, <<24, <<30, 0, 10>>, <<80, 0, 90>> >>,
           <<16, <<0, 30, 20>>, <<60, 0, 180>> >>, <<35, <<-30, 0, 20>>, <<60, 0, 270>> >> }

\* place_camera(focal_length, location, rotation) with the pose given
place_camera ==
    /\ \E pose \in Poses :
         camera' = [lens |-> pose[1], location |-> pose[2], rotation_euler |-> pose[3]]
    /\ UNCHANGED <<objects, obj_type, selected, active, sun, sun_rotation, sun_calls>>
    /\ UNCHANGED notSun

SceneNext ==
    \/ place_sun_explicit
    \/ place_sun_random
    \/ place_camera

Lamps == {i \in objects : obj_type[i] = "LAMP"}

(***************************************************************************)
(* Render.random_camera                                                    *)
(***************************************************************************)
\* Angles with exact sines and cosines: s/TrigDen and c/TrigDen.
TrigDen == 5
\* theta, increasing from 0 (straight up) to pi (straight down)
ThetaTable ==
    << [s |-> 0, c |-> 5],  [s |-> 3, c |-> 4],  [s |-> 4, c |-> 3],
       [s |-> 5, c |-> 0],  [s |-> 4, c |-> -3], [s |-> 3, c |-> -4],
       [s |-> 0, c |-> -5] >>
\* phi in [0, 2 pi): 0, pi/2, pi, 3 pi/2
PhiTable ==
    << [s |-> 0, c |-> 5], [s |-> 5, c |-> 0], [s |-> 0, c |-> -5], [s |-> -5, c |-> 0] >>
\* Distances np.random.normal can return (any real, negative ones too);
\* multiples of TrigDen keep the locations integral.
DistanceDraws == {-5, 5, 10}

Flat0 == << <<-10, -10, 0>>, <<-10, 0, 0>>, <<-10, 10, 0>>,
            <<0, -10, 0>>,   <<0, 0, 0>>,   <<0, 10, 0>>,
            <<10, -10, 0>>,  <<10, 0, 0>>,  <<10, 10, 0>> >>
\* A flat terrain with a steep rock
Rock == Flat0 \o << <<0, 6, 12>> >>
\* A terrain above z = 0 everywhere
Plateau == << <<0, 6, 5>>, <<0, -6, 5>>, <<6, 0, 5>>, <<-6, 0, 5>>, <<0, 0, 6>> >>
Terrains == {Flat0, Rock, Plateau}
Centres == {<<0, 0, 0>>, <<0, 0, 5>>}
\* opts['camera_theta'] as indices of ThetaTable
ThetaRanges == {<<1, 3>>, <<2, 4>>, <<5, 7>>}

\* sphere.centre + distance * [sin(theta)*sin(-phi), sin(theta)*cos(phi), cos(theta)]
CandidateLocation(centre, distance, theta, phi) ==
    LET t == ThetaTable[theta]
        p == PhiTable[phi]
        q == TrigDen * TrigDen
    IN  << centre[1] + (distance * t.s * (0 - p.s)) \div q,
           centre[2] + (distance * t.s * p.c) \div q,
           centre[3] + (distance * t.c * TrigDen) \div q >>

\* mathutils.kdtree.KDTree.find(co) returns the tuple (co, index, distance)
\* of the nearest point; the distance is kept as its square here.  Equally
\* near points are all possible results.
find(tree, co) ==
    { <<tree[i], i, Dist2(tree[i], co)>> : i \in
        { k \in DOMAIN tree : \A m \in DOMAIN tree :
             Dist2(tree[k], co) <= Dist2(tree[m], co) } }

\* z > d, for the d >= 0 whose square is d2
GreaterThanRoot(z, d2) == z > 0 /\ z * z > d2

\* location[2] > closest_vertex[2]: element 2 of find's tuple (element 3,
\* counting from 1) is the distance.
above_landscape(loc, closest) == GreaterThanRoot(loc[3], closest[3])

\* The most iterations the model counts.
AttemptCap == 2

NoVertex == <<<<0, 0, 0>>, 0, 0>>

CamInit ==
    /\ cam_pc = "idle"
    /\ cam_conf \in [terrain : Terrains, centre : Centres, theta : ThetaRanges]
    /\ location = <<0, 0, 0>>
    /\ closest_vertex = NoVertex
    /\ attempts = 0

\* random_camera is called: everything up to the while loop.
random_camera_call ==
    /\ cam_pc \in {"idle", "returned"}
    /\ cam_pc' = "loop"
    /\ attempts' = 0
    /\ UNCHANGED <<cam_conf, location, closest_vertex>>
    /\ UNCHANGED notCam

\* One iteration of the while loop: the draws, the candidate, the test.
random_camera_iterate ==
    /\ cam_pc = "loop"
    /\ \E distance \in DistanceDraws,
          theta \in cam_conf.theta[1]..cam_conf.theta[2],
          phi \in DOMAIN PhiTable :
         LET loc == CandidateLocation(cam_conf.centre, distance, theta, phi) IN
         \E closest \in find(cam_conf.terrain, loc) :
            /\ location' = loc
            /\ closest_vertex' = closest
            /\ cam_pc' = IF above_landscape(loc, closest) THEN "returned" ELSE "loop"
    /\ attempts' = Min2(attempts + 1, AttemptCap)
    /\ UNCHANGED cam_conf
    /\ UNCHANGED notCam

CamNext ==
    \/ random_camera_call
    \/ random_camera_iterate


(***************************************************************************)
(* BoundingSphere                                                          *)
(***************************************************************************)
\* The most objects a sphere is built from.
MaxObjects == 2

\* An object: its local bounding box [lo, hi], and its matrix_world, a
\* rotation about z by rot quarter turns followed by a translation by loc.
LocalBoxes == { [lo |-> <<-1, -1, -1>>, hi |-> <<1, 1, 1>>],
                [lo |-> <<-2, -1, -1>>, hi |-> <<2, 1, 1>>] }
SphereObjects ==
    { [lo |-> b.lo, hi |-> b.hi, rot |-> r, loc |-> l] :
        b \in LocalBoxes, r \in 0..3, l \in {<<0, 0, 0>>, <<10, 0, 0>>, <<0, 6, 2>>} }
ObjectLists == UNION { [1..n -> SphereObjects] : n \in 1..MaxObjects }

\* minmax(index, axis): 1 for max, 0 for min (index 0..7, axis 0..2)
is_max(index, axis) ==
    LET bit == (index \div (2 ^ axis)) % 2 IN
    IF axis = 0 THEN (bit + ((index \div 2) % 2)) % 2 ELSE bit

\* x.bound_box[i], with the corner order minmax assumes: corner i takes
\* the max along an axis exactly where minmax(i, axis) chooses max.
bound_box(x, i) ==
    [j \in Axes |-> IF is_max(i, j - 1) = 1 THEN x.hi[j] ELSE x.lo[j]]

\* x.matrix_world * v
matrix_world(x, v) ==
    LET r == CASE x.rot = 0 -> <<v[1], v[2], v[3]>>
               [] x.rot = 1 -> <<0 - v[2], v[1], v[3]>>
               [] x.rot = 2 -> <<0 - v[1], 0 - v[2], v[3]>>
               [] OTHER     -> <<v[2], 0 - v[1], v[3]>>
    IN VAdd(r, x.loc)

world_corner(x, i) == matrix_world(x, bound_box(x, i))

\* box[i][j], for i in 0..7 and j in 1..3
composite_box(objs) ==
    [i \in 0..7 |-> [j \in Axes |->
        LET along == { world_corner(objs[k], i)[j] : k \in DOMAIN objs } IN
        IF is_max(i, j - 1) = 1 THEN SetMax(along) ELSE SetMin(along)]]

\* 8 * centre = np.sum(box, axis=0)
centre_times_8(box) ==
    [j \in Axes |-> box[0][j] + box[1][j] + box[2][j] + box[3][j]
                    + box[4][j] + box[5][j] + box[6][j] + box[7][j]]

\* The square of 8 * |v - centre|
Norm2Times64(v, c8) == Dist2([j \in Axes |-> 8 * v[j]], c8)

\* 64 * radius^2 = 64 * max(norm(box - centre))^2
radius_times_64(box, c8) == SetMax({ Norm2Times64(box[i], c8) : i \in 0..7 })

SphIdle ==
    /\ sph_objects = <<>>
    /\ sph_box = [i \in 0..7 |-> <<0, 0, 0>>]
    /\ sph_centre = <<0, 0, 0>>
    /\ sph_radius = 0
    /\ sph_built = FALSE

\* The objects a BoundingSphere is about to be built from
SphInit ==
    /\ sph_objects \in ObjectLists
    /\ sph_box = [i \in 0..7 |-> <<0, 0, 0>>]
    /\ sph_centre = <<0, 0, 0>>
    /\ sph_radius = 0
    /\ sph_built = FALSE

\* BoundingSphere(objects), with the default centre
BoundingSphere_init ==
    /\ sph_built' = TRUE
    /\ LET box == composite_box(sph_objects) IN
       /\ sph_box' = box
       /\ sph_centre' = centre_times_8(box)
       /\ sph_radius' = radius_times_64(box, centre_times_8(box))
    /\ UNCHANGED sph_objects
    /\ UNCHANGED notSph

SphNext == BoundingSphere_init


(***************************************************************************)
(* Floats that may be NaN, and boxes of them                               *)
(***************************************************************************)
NaN == <<>>
Fin(v) == <<v>>
IsNaN(a) == a = NaN
FAdd(a, b) == IF IsNaN(a) \/ IsNaN(b) THEN NaN ELSE Fin(a[1] + b[1])
FSub(a, b) == IF IsNaN(a) \/ IsNaN(b) THEN NaN ELSE Fin(a[1] - b[1])
FNeg(a)    == IF IsNaN(a) THEN NaN ELSE Fin(0 - a[1])
FVec(v)    == [j \in Axes |-> Fin(v[j])]
FVAdd(a, b) == [j \in Axes |-> FAdd(a[j], b[j])]
FVSub(a, b) == [j \in Axes |-> FSub(a[j], b[j])]
FVNeg(a)    == [j \in Axes |-> FNeg(a[j])]
FZero == FVec(<<0, 0, 0>>)
\* A box is <<lo, hi>>: the 2 x 3 array helpers.bounding_box returns.
Box(lo, hi) == <<FVec(lo), FVec(hi)>>
BoxAdd(a, b) == <<FVAdd(a[1], b[1]), FVAdd(a[2], b[2])>>
BoxSub(a, b) == <<FVSub(a[1], b[1]), FVSub(a[2], b[2])>>

\* A quotient num/den; den = 0 is a float division by zero (inf or nan).
Quot(num, den) == [num |-> num, den |-> den]
NotFinite == Quot(0, 0)
One == Quot(1, 1)
IsOne(q) == q.den # 0 /\ q.num = q.den
\* end_length / start_length, elementwise
Divide(a, b) ==
    [j \in Axes |-> IF IsNaN(a[j]) \/ IsNaN(b[j]) \/ b[j] = Fin(0)
                      THEN NotFinite ELSE Quot(a[j][1], b[j][1])]

(***************************************************************************)
(* Scale.scale                                                             *)
(***************************************************************************)
\* The most scale calls on one scene.
MaxScaleCalls == 1

ObjectNames == {"ref", "seg", "pierA", "pierB"}
GroupNames == {"min", "scale", "max"}

\* bpy.data.objects: a deck segment "ref" between two piers, and a second
\* segment "seg" on top of it, which is flat (a plane) in some scenes.
Scenes ==
    { [n \in ObjectNames |->
         CASE n = "ref"   -> Box(<<0 - half, -2, 0>>, <<half, 2, 2>>)
           [] n = "seg"   -> Box(<<-2, -2, 2>>, <<2, 2, top>>)
           [] n = "pierA" -> Box(<<-8, -2, 0>>, <<0 - half, 2, 2>>)
           [] OTHER       -> Box(<<half, -2, 0>>, <<8, 2, 2>>)]
      : half \in {2, 4}, top \in {2, 4} }

\* The factors scale is called with
Values == {0, 1, 2}
Bases == {"min", "scale", "max", "centre"}

\* helpers.bounding_box(obj): the object's world bounding box
bounding_box(boxes, name) == boxes[name]

\* axis*(value - 1) + np.ones(3), for the value scale_object is given
\* (one quotient per axis) and the boolean axis mask
resize_vector(value, axis_index) ==
    [j \in Axes |-> IF value[j].den = 0 THEN NotFinite
                    ELSE IF j = axis_index + 1 THEN value[j] ELSE One]

\* A coordinate c of a mesh spanning [lo, hi], resized by r about the
\* median point (lo + hi)/2
resize_about_median(lo, hi, c, r) ==
    ((lo + hi) * r.den + r.num * (2 * c - lo - hi)) \div (2 * r.den)

\* bpy.ops.transform.resize(value=rv) on the whole mesh: the box after
resize_box(box, rv) ==
    LET new(j) ==
          IF rv[j].den = 0 \/ IsNaN(box[1][j]) \/ IsNaN(box[2][j])
            THEN <<NaN, NaN>>
            ELSE LET a == resize_about_median(box[1][j][1], box[2][j][1], box[1][j][1], rv[j])
                     b == resize_about_median(box[1][j][1], box[2][j][1], box[2][j][1], rv[j])
                 IN <<Fin(Min2(a, b)), Fin(Max2(a, b))>>
    IN << [j \in Axes |-> new(j)[1]], [j \in Axes |-> new(j)[2]] >>

\* scale_object(obj, value, axis)
scale_object(boxes, name, value, axis_index) ==
    [boxes EXCEPT ![name] = resize_box(boxes[name], resize_vector(value, axis_index))]

\* x * axis, for the boolean axis mask
mask(v, axis_index) ==
    [j \in Axes |-> IF j = axis_index + 1 \/ IsNaN(v[j]) THEN v[j] ELSE Fin(0)]

\* translate_group(group, translate): every object named in group moves once
translate_group(boxes, group, t) ==
    [n \in DOMAIN boxes |->
        IF \E k \in DOMAIN group : group[k] = n
          THEN BoxAdd(boxes[n], <<t, t>>) ELSE boxes[n]]

\* The loop over self.groups['scale']: the boxes and the scale_object
\* calls after the first k names
RECURSIVE scale_group_loop(_, _, _, _, _, _, _)
scale_group_loop(boxes, calls, names, k, reference, axis_index, refs) ==
    IF k > Len(names) THEN [boxes |-> boxes, calls |-> calls]
    ELSE IF names[k] = reference
      THEN scale_group_loop(boxes, calls, names, k + 1, reference, axis_index, refs)
      ELSE LET start_box == bounding_box(boxes, names[k])
               start_length == FVSub(start_box[2], start_box[1])
               end_box == BoxAdd(BoxSub(start_box, refs[1]), refs[2])
               end_length == FVSub(end_box[2], end_box[1])
               value == Divide(end_length, start_length)
           IN scale_group_loop(scale_object(boxes, names[k], value, axis_index),
                               Append(calls, <<names[k], resize_vector(value, axis_index)>>),
                               names, k + 1, reference, axis_index, refs)

\* The translate_group calls with the two bounds' changes exchanged
base_translations_swapped(base, translate) ==
    CASE base = "min" ->
           << <<"scale", FVNeg(translate[2])>>,
              <<"max", FVSub(translate[1], translate[2])>> >>
      [] base = "scale" ->
           << <<"min", translate[2]>>, <<"max", translate[1]>> >>
      [] base = "max" ->
           << <<"min", FVSub(translate[2], translate[1])>>,
              <<"scale", FVNeg(translate[1])>> >>
      [] OTHER -> << >>
\* The translate_group calls of each base, as <<group, translation>>;
\* translate is <<translate[0], translate[1]>>.
base_translations(base, translate) ==
    CASE base = "min" ->
           << <<"scale", FVNeg(translate[1])>>,
              <<"max", FVSub(translate[2], translate[1])>> >>
      [] base = "scale" ->
           << <<"min", translate[1]>>, <<"max", translate[2]>> >>
      [] base = "max" ->
           << <<"min", FVSub(translate[1], translate[2])>>,
              <<"scale", FVNeg(translate[2])>> >>
      [] OTHER -> << >>

RECURSIVE apply_translations(_, _, _, _)
apply_translations(boxes, g, calls, k) ==
    IF k > Len(calls) THEN boxes
    ELSE apply_translations(translate_group(boxes, g[calls[k][1]], calls[k][2]),
                            g, calls, k + 1)

ScaleInit ==
    /\ obj_box \in Scenes
    /\ sc_pc = "idle"
    /\ sc_error = "none"
    /\ sc_args = [value |-> 1, axis_index |-> 0, reference |-> "ref", base |-> "scale"]
    /\ box_before = obj_box
    /\ start_ref = obj_box["ref"]
    /\ end_ref = obj_box["ref"]
    /\ resized = << >>
    /\ translated = << >>
    /\ sc_calls = 0

\* Scale.scale(value, axis_index, reference, base)
scale(value, axis_index, reference, base) ==
    /\ sc_calls < MaxScaleCalls
    /\ sc_calls' = sc_calls + 1
    /\ sc_args' = [value |-> value, axis_index |-> axis_index,
                   reference |-> reference, base |-> base]
    /\ box_before' = obj_box
    /\ IF groups = "None"
         THEN \* assert self.groups is not None
              /\ sc_pc' = "raised"
              /\ sc_error' = "AssertionError"
              /\ UNCHANGED <<obj_box, start_ref, end_ref>>
              /\ resized' = << >>
              /\ translated' = << >>
         ELSE LET g == GroupTable[groups]
                  sref == bounding_box(obj_box, reference)
                  b1 == scale_object(obj_box, reference,
                                     [j \in Axes |-> Quot(value, 1)], axis_index)
                  eref == bounding_box(b1, reference)
                  loop == scale_group_loop(b1, << >>, g.scale, 1, reference,
                                           axis_index, <<sref, eref>>)
                  delta == BoxSub(eref, sref)
                  translate == <<mask(delta[1], axis_index), mask(delta[2], axis_index)>>
                  moves == base_translations(base, translate)
              IN /\ start_ref' = sref
                 /\ end_ref' = eref
                 /\ resized' = << <<reference, resize_vector([j \in Axes |-> Quot(value, 1)],
                                                            axis_index)>> >> \o loop.calls
                 /\ translated' = moves
                 /\ obj_box' = apply_translations(loop.boxes, g, moves, 1)
                 /\ IF base \in GroupNames
                      THEN sc_pc' = "returned" /\ sc_error' = "none"
                      ELSE sc_pc' = "raised" /\ sc_error' = "ValueError"
    /\ UNCHANGED notScale

ScaleNext ==
    \E value \in Values, axis_index \in 0..2, base \in Bases :
        scale(value, axis_index, "ref", base)


(***************************************************************************)
(* dissolve_near and limit_dissolve                                        *)
(***************************************************************************)
\* The most vertices of a mesh.
MaxVerts == 3

\* Coordinates are in quarter units: the vertex <<0, 0, -4>> is at z = -1.
VertexCoords == { <<0, 0, -4>>, <<0, 0, -1>>, <<0, 0, 0>>, <<1, 0, 0>>, <<0, 0, 2>> }
Meshes == UNION { [1..n -> VertexCoords] : n \in 0..MaxVerts }
Limits == {0, 1}

\* length < 0.5, in quarter units and squared: |a - b|^2 < 2^2
DissolveRadiusSq == 4
near_wider(a, b) == Dist2(a, b) < 4 * DissolveRadiusSq
near_never(a, b) == FALSE
near(a, b) == Dist2(a, b) < DissolveRadiusSq

\* Keep the elements of a sequence that are not in a set
RECURSIVE Without(_, _)
Without(seq, S) ==
    IF seq = << >> THEN << >>
    ELSE IF Head(seq) \in S THEN Without(Tail(seq), S)
         ELSE <<Head(seq)>> \o Without(Tail(seq), S)

\* dissolve_near(point, obj): the vertices left after the selected ones
\* (those nearer than 0.5 to point) are dissolved
dissolve_near(point, verts, co) ==
    Without(verts, { verts[k] : k \in { m \in DOMAIN verts : near(co[verts[m]], point) } })

\* vert.co[axis_index] < limit
below_limit(v, co, args) == co[v][args.axis_index + 1] < args.limit

\* dissolve_next finds the first vertex below the limit, in enumeration order
first_below(verts, co, args) ==
    LET hits == { k \in DOMAIN verts : below_limit(verts[k], co, args) }
    IN verts[SetMin(hits)]
any_below(verts, co, args) == \E k \in DOMAIN verts : below_limit(verts[k], co, args)

MeshInit ==
    /\ mesh_co \in Meshes
    /\ mesh_verts = [k \in DOMAIN mesh_co |-> k]
    /\ dis_pc = "idle"
    /\ dis_args = [axis_index |-> 0, limit |-> 0]
    /\ mesh_before = mesh_verts
    /\ dis_passes = 0

\* limit_dissolve(obj, axis_index, limit) is called
limit_dissolve_call ==
    /\ dis_pc \in {"idle", "done"}
    /\ \E axis_index \in 0..2, limit \in Limits :
         dis_args' = [axis_index |-> axis_index, limit |-> limit]
    /\ dis_pc' = "running"
    /\ mesh_before' = mesh_verts
    /\ dis_passes' = 0
    /\ UNCHANGED <<mesh_co, mesh_verts>>
    /\ UNCHANGED notMesh

\* dissolve_next() returns True: one vertex found, its neighbourhood dissolved
dissolve_next_true ==
    /\ dis_pc = "running"
    /\ any_below(mesh_verts, mesh_co, dis_args)
    /\ mesh_verts' = dissolve_near(mesh_co[first_below(mesh_verts, mesh_co, dis_args)],
                                   mesh_verts, mesh_co)
    /\ dis_passes' = dis_passes + 1
    /\ UNCHANGED <<mesh_co, dis_pc, dis_args, mesh_before>>
    /\ UNCHANGED notMesh

\* dissolve_next() returns False: the while loop ends and limit_dissolve returns
dissolve_next_false ==
    /\ dis_pc = "running"
    /\ ~any_below(mesh_verts, mesh_co, dis_args)
    /\ dis_pc' = "done"
    /\ UNCHANGED <<mesh_co, mesh_verts, dis_args, mesh_before, dis_passes>>
    /\ UNCHANGED notMesh

MeshNext ==
    \/ limit_dissolve_call
    \/ dissolve_next_true
    \/ dissolve_next_false

(***************************************************************************)
(* Specifications: one per part; the other parts stay as they start        *)
(***************************************************************************)
IoIdle ==
    /\ file = Truncated
    /\ groups = "None"
    /\ io_call = NoCall
    /\ io_error = "none"
    /\ file_before = file

CamIdle ==
    /\ cam_pc = "idle"
    /\ cam_conf = [terrain |-> Flat0, centre |-> <<0, 0, 0>>, theta |-> <<1, 3>>]
    /\ location = <<0, 0, 0>>
    /\ closest_vertex = NoVertex
    /\ attempts = 0

ScaleIdle ==
    /\ obj_box = [n \in ObjectNames |-> Box(<<0, 0, 0>>, <<0, 0, 0>>)]
    /\ sc_pc = "idle"
    /\ sc_error = "none"
    /\ sc_args = [value |-> 1, axis_index |-> 0, reference |-> "ref", base |-> "scale"]
    /\ box_before = obj_box
    /\ start_ref = obj_box["ref"]
    /\ end_ref = obj_box["ref"]
    /\ resized = << >>
    /\ translated = << >>
    /\ sc_calls = 0

MeshIdle ==
    /\ mesh_co = << >>
    /\ mesh_verts = << >>
    /\ dis_pc = "idle"
    /\ dis_args = [axis_index |-> 0, limit |-> 0]
    /\ mesh_before = << >>
    /\ dis_passes = 0

\* Scale's groups document
InitGroups == IoInit /\ SceneInit /\ CamIdle /\ SphIdle /\ ScaleIdle /\ MeshIdle
SpecGroups == InitGroups /\ [][IoNext]_vars

\* Render's scene: place_sun and place_camera
InitScene == IoIdle /\ SceneInit /\ CamIdle /\ SphIdle /\ ScaleIdle /\ MeshIdle
SpecScene == InitScene /\ [][SceneNext]_vars

\* Render.random_camera
InitCamera == IoIdle /\ SceneInit /\ CamInit /\ SphIdle /\ ScaleIdle /\ MeshIdle
SpecCamera == InitCamera /\ [][CamNext]_vars
\* The while loop of random_camera keeps iterating
FairCamera == SpecCamera /\ WF_vars(random_camera_iterate)

\* BoundingSphere
InitSphere == IoIdle /\ SceneInit /\ CamIdle /\ SphInit /\ ScaleIdle /\ MeshIdle
SpecSphere == InitSphere /\ [][SphNext]_vars

\* Scale.scale
InitScale ==
    /\ file = Truncated /\ groups \in GroupValues /\ io_call = NoCall
    /\ io_error = "none" /\ file_before = file
    /\ SceneInit /\ CamIdle /\ SphIdle /\ ScaleInit /\ MeshIdle
SpecScale == InitScale /\ [][ScaleNext]_vars

\* limit_dissolve
InitDissolve == IoIdle /\ SceneInit /\ CamIdle /\ SphIdle /\ ScaleIdle /\ MeshInit
SpecDissolve == InitDissolve /\ [][MeshNext]_vars
\* The while loop of limit_dissolve keeps calling dissolve_next
FairDissolve ==
    SpecDissolve /\ WF_vars(dissolve_next_true) /\ WF_vars(dissolve_next_false)

(***************************************************************************)
(* Properties                                                              *)
(***************************************************************************)
Range(seq) == { seq[k] : k \in DOMAIN seq }

\* C1: whenever random_camera returns, the returned location's z is greater
\* than the z of the terrain vertex nearest to it.
C1_AboveNearestVertex ==
    cam_pc = "returned" => location[3] > closest_vertex[1][3]

\* The locations the configuration can draw
Candidates ==
    { CandidateLocation(cam_conf.centre, d, t, p) :
        d \in DistanceDraws, t \in cam_conf.theta[1]..cam_conf.theta[2],
        p \in DOMAIN PhiTable }
\* No candidate passes the test the loop makes
NoCandidatePasses ==
    \A loc \in Candidates : \A c \in find(cam_conf.terrain, loc) : ~above_landscape(loc, c)

\* C2: the rejection loop is bounded: when no candidate can pass the test,
\* random_camera stops with a camera-placement-timeout error.
C2_TimesOut ==
    [](cam_pc = "loop" /\ NoCandidatePasses => <>(cam_pc = "timeout"))

\* C3: after any sequence of place_sun calls the scene holds exactly one
\* sun and self.sun refers to it; before the first call it holds none.
C3_OneSun ==
    IF sun_calls = 0 THEN Lamps = {} /\ sun = 0
    ELSE Lamps = {sun} /\ sun \in objects
\* Two calls have been made, the last one with an explicit rotation.
C3_Witness ==
    sun_calls = 2 /\ sun \in objects /\ sun_rotation \in Rotations

\* C7: the sphere encloses every world-space corner of every input object.
C7_EnclosesCorners ==
    sph_built =>
      \A k \in DOMAIN sph_objects : \A i \in 0..7 :
         Norm2Times64(world_corner(sph_objects[k], i), sph_centre) <= sph_radius

\* C8: write_groups without overwrite on an existing name fails and leaves
\* the document as it was; otherwise only the entry of that name changes.
C8_ConflictLeavesDocument ==
    /\ (io_call.op = "write" /\ io_error = "ValueError") => file = file_before
    /\ (io_call.op = "write" /\ io_error = "none") =>
          /\ file.valid
          /\ DOMAIN file.data = DOMAIN file_before.data \cup {io_call.name}
          /\ \A n \in DOMAIN file_before.data \ {io_call.name} :
                file.data[n] = file_before.data[n]

\* The net translation translate_group has given group g in the last call
RECURSIVE NetOf(_, _)
NetOf(calls, g) ==
    IF calls = << >> THEN FZero
    ELSE IF Head(calls)[1] = g THEN FVAdd(Head(calls)[2], NetOf(Tail(calls), g))
         ELSE NetOf(Tail(calls), g)
NetTranslation(g) == NetOf(translated, g)
TimesTranslated(g) == Cardinality({ k \in DOMAIN translated : translated[k][1] = g })
\* translate[0] and translate[1] of the last call
Translate0 == mask(FVSub(end_ref[1], start_ref[1]), sc_args.axis_index)
Translate1 == mask(FVSub(end_ref[2], start_ref[2]), sc_args.axis_index)

\* C4 as claimed: after scale returns, the base group has zero net
\* translation and each of the other two groups has moved by a non-zero amount.
C4_OnlyBaseStationary ==
    sc_pc = "returned" =>
      \A g \in GroupNames : (NetTranslation(g) = FZero) <=> (g = sc_args.base)

\* C4 as amended: after scale returns, the base group has not been
\* translated, and each other group has been translated exactly once, by the
\* change of the reference's bounds that belongs to the base: by zero when
\* the reference's box did not change.
C4_BaseStationary ==
    sc_pc = "returned" =>
      /\ TimesTranslated(sc_args.base) = 0
      /\ \A g \in GroupNames \ {sc_args.base} : TimesTranslated(g) = 1
      /\ sc_args.base = "scale" =>
            /\ NetTranslation("min") = Translate0
            /\ NetTranslation("max") = Translate1
      /\ sc_args.base = "min" =>
            /\ NetTranslation("scale") = FVNeg(Translate0)
            /\ NetTranslation("max") = FVSub(Translate1, Translate0)
      /\ sc_args.base = "max" =>
            /\ NetTranslation("min") = FVSub(Translate0, Translate1)
            /\ NetTranslation("scale") = FVNeg(Translate1)
      /\ end_ref = start_ref => \A g \in GroupNames : NetTranslation(g) = FZero
\* scale has returned for factor 2 and base min, and both other groups moved.
C4_Witness ==
    /\ sc_pc = "returned" /\ sc_args.value = 2 /\ sc_args.base = "min"
    /\ NetTranslation("scale") # FZero /\ NetTranslation("max") # FZero
    /\ NetTranslation("min") = FZero

\* C5: scale with factor 1 is a no-op: every object of the scale group is
\* resized by 1 along the axis, every translation is zero and every box is
\* as before the call.
C5_FactorOneNoOp ==
    (sc_pc = "returned" /\ sc_args.value = 1) =>
      /\ \A k \in DOMAIN resized : IsOne(resized[k][2][sc_args.axis_index + 1])
      /\ \A k \in DOMAIN translated : translated[k][2] = FZero
      /\ obj_box = box_before

\* C9: scale with an invalid base fails and leaves the scene unchanged:
\* nothing resized, nothing translated.
C9_InvalidBaseUnchanged ==
    (sc_pc = "raised" /\ sc_error = "ValueError") =>
      /\ resized = << >>
      /\ translated = << >>
      /\ obj_box = box_before

\* C6: limit_dissolve terminates, and when it has returned no vertex of the
\* mesh is below the limit; each pass that finds a vertex below the limit
\* removes at least that vertex (the first one in enumeration order) and the
\* loop goes on.
C6_TerminatesClean ==
    /\ [](dis_pc = "done" => ~any_below(mesh_verts, mesh_co, dis_args))
    /\ [][dissolve_next_true =>
            /\ first_below(mesh_verts, mesh_co, dis_args) \notin Range(mesh_verts')
            /\ Len(mesh_verts') < Len(mesh_verts)
            /\ dis_pc' = "running"]_vars
    /\ (dis_pc = "running" ~> dis_pc = "done")
\* limit_dissolve has returned after two passes, with vertices left.
C6_Witness ==
    /\ dis_pc = "done" /\ dis_passes >= 2
    /\ mesh_verts # << >>
    /\ ~any_below(mesh_verts, mesh_co, dis_args)

AtOrAbove(v) == ~below_limit(v, mesh_co, dis_args)
\* Not nearer than 0.5 to any vertex that was below the limit at the call
FarFromBelow(v) ==
    \A w \in Range(mesh_before) :
        below_limit(w, mesh_co, dis_args) =>
            Dist2(mesh_co[v], mesh_co[w]) >= DissolveRadiusSq

\* C10 as claimed: every vertex at or above the limit before the call is
\* still in the mesh after it.
C10_KeepsAtOrAbove ==
    dis_pc = "done" =>
      \A v \in Range(mesh_before) : AtOrAbove(v) => v \in Range(mesh_verts)

\* C10 as amended: every vertex at or above the limit before the call that
\* is not nearer than 0.5 to any vertex below the limit is still in the mesh,
\* during the call and after it.
C10_KeepsFarAtOrAbove ==
    dis_pc \in {"running", "done"} =>
      \A v \in Range(mesh_before) :
          (AtOrAbove(v) /\ FarFromBelow(v)) => v \in Range(mesh_verts)
\* limit_dissolve has returned; one vertex at or above the limit is left and
\* another one, near a vertex below the limit, is gone.
C10_Witness ==
    /\ dis_pc = "done" /\ dis_passes >= 1
    /\ \E v \in Range(mesh_before) :
          AtOrAbove(v) /\ FarFromBelow(v) /\ v \in Range(mesh_verts)
    /\ \E v \in Range(mesh_before) :
          AtOrAbove(v) /\ ~FarFromBelow(v) /\ v \notin Range(mesh_verts)

====
